---- MODULE Spec2Model ----
(***************************************************************************)
(* A model of src/index.tsx: the Redux middleware that bridges dispatched  *)
(* socket actions (SUBSCRIBE, UNSUBSCRIBE, EMIT) to a socket.io-client     *)
(* socket, and inbound socket events back to dispatched actions.           *)
(*                                                                         *)
(* The middleware is synchronous: one call of the innermost function of    *)
(* socketMiddleware runs to completion, so each call is one action.  The   *)
(* socket is the Emitter of socket.io-client: on() appends the callback to *)
(* the event's callback array, removeListener() splices out the first      *)
(* callback that is the given reference, emit-to-listeners calls a copy of *)
(* the array in order.  The store's dispatch sends an action through the   *)
(* whole middleware chain, this middleware included.                       *)
(***************************************************************************)
EXTENDS Naturals, Sequences, FiniteSets, TLC

\* The number of calls (process calls and inbound deliveries) of a behaviour.
MaxCalls == 3

Events == {"e1", "e2"}
Payloads == {"d1", "d2"}

----------------------------------------------------------------------------
(* JavaScript values.  typeof is what `typeof v` yields; name is the value  *)
(* as a template literal prints it (a primitive) or its .name (a function); *)
(* id > 0 is the identity of a closure made by defaultHandle, and ev the    *)
(* event name that closure captured.                                        *)

Val(t, n, e, i) == [typeof |-> t, name |-> n, ev |-> e, id |-> i]

Undefined == Val("undefined", "undefined", "", 0)
Str(s) == Val("string", s, "", 0)
NotCallable == Val("number", "42", "", 0)
UserFn(n) == Val("function", n, "", 0)
SocketRef == Val("object", "socket", "", 0)
ErrorOf(msg) == Val("object", msg, "", 0)

\* `${v}` for the primitives that occur as event names.
Template(v) == v.name

UserFns == {UserFn("f"), UserFn("g")}
NextReturns == {Val("object", "r1", "", 0), Val("object", "r2", "", 0)}

\* const ACTIONS = Object.freeze({...}), exported as SOCKET_ACTIONS
SOCKET_ACTIONS ==
    [SUBSCRIBE |-> "SOCKET_IO_SUBSCRIBE",
     UNSUBSCRIBE |-> "SOCKET_IO_UNSUBSCRIBE",
     EMIT |-> "SOCKET_IO_EMIT",
     EMIT_EVENT |-> "SOCKET_IO_EMIT_EVENT",
     EVENT_RECEIVED |-> "SOCKET_IO_EVENT_RECEIVED"]

\* An object that is dispatched; a field the object lacks reads as undefined.
Obj(type, event, handle, data, action) ==
    [typeof |-> "object", type |-> type, event |-> event, handle |-> handle,
     data |-> data, action |-> action]

\* A function that is dispatched (a thunk).
Thunk ==
    [typeof |-> "function", type |-> "undefined", event |-> Undefined,
     handle |-> Undefined, data |-> Undefined, action |-> Undefined]

\* actionCreator
emit(event, data) == Obj(SOCKET_ACTIONS.EMIT, event, Undefined, data, Undefined)
subscribe(event, handle) == Obj(SOCKET_ACTIONS.SUBSCRIBE, event, handle, Undefined, Undefined)
\* An unsubscribe that builds the action of subscribe.
unsubscribe_AsSubscribe(event, handle) ==
    Obj(SOCKET_ACTIONS.SUBSCRIBE, event, handle, Undefined, Undefined)

unsubscribe(event, handle) == Obj(SOCKET_ACTIONS.UNSUBSCRIBE, event, handle, Undefined, Undefined)

----------------------------------------------------------------------------
(* The socket: the callbacks of each event, in registration order.          *)

SocketOn(ls, event, fn) ==
    [ls EXCEPT ![Template(event)] = Append(@, fn)]

RECURSIVE RemoveFirst(_, _)
RemoveFirst(cbs, fn) ==
    IF cbs = <<>> THEN <<>>
    ELSE IF Head(cbs) = fn THEN Tail(cbs)
    ELSE <<Head(cbs)>> \o RemoveFirst(Tail(cbs), fn)

SocketRemoveListener(ls, event, fn) ==
    [ls EXCEPT ![Template(event)] = RemoveFirst(@, fn)]

\* socket.emit returns the socket.
SocketEmit(event, data) == SocketRef

----------------------------------------------------------------------------
(* What one call did, in order: the calls it made of dispatch, next and the *)
(* socket.  depth 0 is the call itself, depth 1 a call of the middleware    *)
(* that the store's dispatch made from inside it.                           *)

EffDispatch(depth, rec) == [op |-> "dispatch", depth |-> depth, arg |-> rec]
EffNext(depth, rec) == [op |-> "next", depth |-> depth, arg |-> rec]
EffEmit(depth, event, data) ==
    [op |-> "emit", depth |-> depth, event |-> event, data |-> data]
EffOn(depth, event, fn) ==
    [op |-> "on", depth |-> depth, event |-> event, handle |-> fn]
EffRemove(depth, event, fn) ==
    [op |-> "removeListener", depth |-> depth, event |-> event, handle |-> fn]
EffInvoke(fn, data) == [op |-> "invoke", handle |-> fn, data |-> data]

\* The outcome of a call: the socket's listeners and the closure counter
\* after it, what it did, and what it returned or threw.
Outcome(ls, nid, trace, threw, value) ==
    [listeners |-> ls, nextId |-> nid, trace |-> trace, threw |-> threw,
     value |-> value]

RECURSIVE socketMiddleware(_, _, _, _, _)

\* dispatch of the MiddlewareAPI: the action goes through the middleware.
StoreDispatch(rec, ls, nid, depth, nr) ==
    LET inner == socketMiddleware(rec, ls, nid, depth + 1, nr)
    IN  [inner EXCEPT !.trace = <<EffDispatch(depth, rec)>> \o @]

\* A defaultHandle that returns the same closure for an event every time.
defaultHandle_SharedIdentity(event, nid) ==
    Val("function", "", Template(event), 1)

\* function defaultHandle(event): a new closure over event and dispatch.
defaultHandle(event, nid) == Val("function", "", Template(event), nid)

\* A default handler that dispatches the record without the data it was given.
defaultHandleCall_DropsData(fn, data, ls, nid, nr) ==
    StoreDispatch(Obj("RECEIVE: " \o fn.ev, Undefined, Undefined, Undefined, Undefined),
                  ls, nid, 0, nr)

\* A default handler that dispatches an EMIT action with the data it was given.
defaultHandleCall_ReEmits(fn, data, ls, nid, nr) ==
    StoreDispatch(Obj(SOCKET_ACTIONS.EMIT, Str(fn.ev), Undefined, data, Undefined),
                  ls, nid, 0, nr)

\* (data) => dispatch({ type: `RECEIVE: ${event}`, data })
defaultHandleCall(fn, data, ls, nid, nr) ==
    StoreDispatch(Obj("RECEIVE: " \o fn.ev, Undefined, Undefined, data, Undefined),
                  ls, nid, 0, nr)

\* A SUBSCRIBE case that returns the handle of the action, not eventHandler.
SubscribeCase_ReturnsHandle(action, ls, nid, depth, nr) ==
    LET event == action.event
        handle == action.handle
        d == StoreDispatch(
                 Obj("SUBSCRIBE: " \o Template(event), event,
                     IF handle.typeof = "function"
                     THEN Str("function: " \o handle.name) ELSE handle,
                     Undefined, Undefined),
                 ls, nid, depth, nr)
        fresh == handle.typeof # "function"
        eventHandler == IF fresh THEN defaultHandle(event, d.nextId) ELSE handle
    IN  Outcome(SocketOn(d.listeners, event, eventHandler),
                IF fresh THEN d.nextId + 1 ELSE d.nextId,
                d.trace \o <<EffOn(depth, event, eventHandler)>>,
                FALSE, handle)

\* A SUBSCRIBE case that replaces the event's listeners by the new one.
SubscribeCase_Replaces(action, ls, nid, depth, nr) ==
    LET event == action.event
        handle == action.handle
        d == StoreDispatch(
                 Obj("SUBSCRIBE: " \o Template(event), event,
                     IF handle.typeof = "function"
                     THEN Str("function: " \o handle.name) ELSE handle,
                     Undefined, Undefined),
                 ls, nid, depth, nr)
        fresh == handle.typeof # "function"
        eventHandler == IF fresh THEN defaultHandle(event, d.nextId) ELSE handle
    IN  Outcome([d.listeners EXCEPT ![Template(event)] = <<eventHandler>>],
                IF fresh THEN d.nextId + 1 ELSE d.nextId,
                d.trace \o <<EffOn(depth, event, eventHandler)>>,
                FALSE, eventHandler)

\* A SUBSCRIBE case whose provenance record carries the handle as given.
SubscribeCase_RawHandleInProvenance(action, ls, nid, depth, nr) ==
    LET event == action.event
        handle == action.handle
        d == StoreDispatch(
                 Obj("SUBSCRIBE: " \o Template(event), event, handle,
                     Undefined, Undefined),
                 ls, nid, depth, nr)
        fresh == handle.typeof # "function"
        eventHandler == IF fresh THEN defaultHandle(event, d.nextId) ELSE handle
    IN  IF d.threw THEN d
        ELSE Outcome(SocketOn(d.listeners, event, eventHandler),
                     IF fresh THEN d.nextId + 1 ELSE d.nextId,
                     d.trace \o <<EffOn(depth, event, eventHandler)>>,
                     FALSE, eventHandler)

\* case ACTIONS.SUBSCRIBE
SubscribeCase(action, ls, nid, depth, nr) ==
    LET event == action.event
        handle == action.handle
        d == StoreDispatch(
                 Obj("SUBSCRIBE: " \o Template(event), event,
                     IF handle.typeof = "function"
                     THEN Str("function: " \o handle.name) ELSE handle,
                     Undefined, Undefined),
                 ls, nid, depth, nr)
        fresh == handle.typeof # "function"
        eventHandler == IF fresh THEN defaultHandle(event, d.nextId) ELSE handle
    IN  IF d.threw THEN d
        ELSE Outcome(SocketOn(d.listeners, event, eventHandler),
                     IF fresh THEN d.nextId + 1 ELSE d.nextId,
                     d.trace \o <<EffOn(depth, event, eventHandler)>>,
                     FALSE, eventHandler)

\* An UNSUBSCRIBE case that leaves before it removes the listener.
UnsubscribeCase_NoRemove(action, ls, nid, depth, nr) ==
    LET event == action.event
        handle == action.handle
        d == StoreDispatch(
                 Obj("UNSUBSCRIBE " \o Template(event), event, Undefined,
                     Undefined, Undefined),
                 ls, nid, depth, nr)
        err == ErrorOf("Unable to unsubscribe to " \o Template(event)
                       \o ", without a function reference.")
    IN  IF handle.typeof # "function"
        THEN Outcome(d.listeners, d.nextId, d.trace, TRUE, err)
        ELSE Outcome(d.listeners, d.nextId, d.trace, FALSE, Undefined)

\* An UNSUBSCRIBE case that calls removeListener before it checks the handle.
UnsubscribeCase_RemoveBeforeCheck(action, ls, nid, depth, nr) ==
    LET event == action.event
        handle == action.handle
        d == StoreDispatch(
                 Obj("UNSUBSCRIBE " \o Template(event), event, Undefined,
                     Undefined, Undefined),
                 ls, nid, depth, nr)
        err == ErrorOf("Unable to unsubscribe to " \o Template(event)
                       \o ", without a function reference.")
    IN  LET ls2 == SocketRemoveListener(d.listeners, event, handle)
            tr == d.trace \o <<EffRemove(depth, event, handle)>>
        IN  IF handle.typeof # "function"
            THEN Outcome(ls2, d.nextId, tr, TRUE, err)
            ELSE Outcome(ls2, d.nextId, tr, FALSE, Undefined)

\* An UNSUBSCRIBE case that removes every listener of the event.
UnsubscribeCase_RemovesAll(action, ls, nid, depth, nr) ==
    LET event == action.event
        handle == action.handle
        d == StoreDispatch(
                 Obj("UNSUBSCRIBE " \o Template(event), event, Undefined,
                     Undefined, Undefined),
                 ls, nid, depth, nr)
        err == ErrorOf("Unable to unsubscribe to " \o Template(event)
                       \o ", without a function reference.")
    IN  IF handle.typeof # "function"
        THEN Outcome(d.listeners, d.nextId, d.trace, TRUE, err)
        ELSE Outcome([d.listeners EXCEPT ![Template(event)] = <<>>], d.nextId,
                     d.trace \o <<EffRemove(depth, event, handle)>>,
                     FALSE, Undefined)

\* An UNSUBSCRIBE case that drops the event's listeners when it fails.
UnsubscribeCase_FailClears(action, ls, nid, depth, nr) ==
    LET event == action.event
        handle == action.handle
        d == StoreDispatch(
                 Obj("UNSUBSCRIBE " \o Template(event), event, Undefined,
                     Undefined, Undefined),
                 ls, nid, depth, nr)
        err == ErrorOf("Unable to unsubscribe to " \o Template(event)
                       \o ", without a function reference.")
    IN  IF handle.typeof # "function"
        THEN Outcome([d.listeners EXCEPT ![Template(event)] = <<>>], d.nextId,
                     d.trace, TRUE, err)
        ELSE Outcome(SocketRemoveListener(d.listeners, event, handle), d.nextId,
                     d.trace \o <<EffRemove(depth, event, handle)>>,
                     FALSE, Undefined)

\* An UNSUBSCRIBE case that, the listener removed, passes the action to next.
UnsubscribeCase_ForwardsToNext(action, ls, nid, depth, nr) ==
    LET event == action.event
        handle == action.handle
        d == StoreDispatch(
                 Obj("UNSUBSCRIBE " \o Template(event), event, Undefined,
                     Undefined, Undefined),
                 ls, nid, depth, nr)
        err == ErrorOf("Unable to unsubscribe to " \o Template(event)
                       \o ", without a function reference.")
    IN  IF handle.typeof # "function"
        THEN Outcome(d.listeners, d.nextId, d.trace, TRUE, err)
        ELSE Outcome(SocketRemoveListener(d.listeners, event, handle), d.nextId,
                     d.trace \o <<EffRemove(depth, event, handle),
                                  EffNext(depth, action)>>,
                     FALSE, nr)

\* An UNSUBSCRIBE case that throws when the handle is no listener of the event.
UnsubscribeCase_RejectsUnknown(action, ls, nid, depth, nr) ==
    LET event == action.event
        handle == action.handle
        d == StoreDispatch(
                 Obj("UNSUBSCRIBE " \o Template(event), event, Undefined,
                     Undefined, Undefined),
                 ls, nid, depth, nr)
    IN  IF d.threw THEN d
        ELSE IF \/ handle.typeof # "function"
                \/ SocketRemoveListener(d.listeners, event, handle) = d.listeners
        THEN Outcome(d.listeners, d.nextId, d.trace, TRUE,
                     ErrorOf("Unable to unsubscribe to " \o Template(event)
                             \o ", without a function reference."))
        ELSE Outcome(SocketRemoveListener(d.listeners, event, handle), d.nextId,
                     d.trace \o <<EffRemove(depth, event, handle)>>,
                     FALSE, Undefined)

\* case ACTIONS.UNSUBSCRIBE
UnsubscribeCase(action, ls, nid, depth, nr) ==
    LET event == action.event
        handle == action.handle
        d == StoreDispatch(
                 Obj("UNSUBSCRIBE " \o Template(event), event, Undefined,
                     Undefined, Undefined),
                 ls, nid, depth, nr)
    IN  IF d.threw THEN d
        ELSE IF handle.typeof # "function"
        THEN Outcome(d.listeners, d.nextId, d.trace, TRUE,
                     ErrorOf("Unable to unsubscribe to " \o Template(event)
                             \o ", without a function reference."))
        ELSE Outcome(SocketRemoveListener(d.listeners, event, handle), d.nextId,
                     d.trace \o <<EffRemove(depth, event, handle)>>,
                     FALSE, Undefined)

\* An EMIT case that sends before it dispatches the provenance record.
EmitCase_SendFirst(action, ls, nid, depth, nr) ==
    LET event == action.event
        data == action.data
        d == StoreDispatch(
                 Obj("EMIT: " \o Template(event), Undefined, Undefined, data,
                     Str("SOCKET.IO EMIT")),
                 ls, nid, depth, nr)
    IN  Outcome(d.listeners, d.nextId,
                <<EffEmit(depth, event, data)>> \o d.trace,
                FALSE, SocketEmit(event, data))

\* An EMIT case that leaves the send to a later turn of the event loop.
EmitCase_SendDeferred(action, ls, nid, depth, nr) ==
    LET event == action.event
        data == action.data
        d == StoreDispatch(
                 Obj("EMIT: " \o Template(event), Undefined, Undefined, data,
                     Str("SOCKET.IO EMIT")),
                 ls, nid, depth, nr)
    IN  Outcome(d.listeners, d.nextId, d.trace, FALSE, Undefined)

\* case ACTIONS.EMIT
EmitCase(action, ls, nid, depth, nr) ==
    LET event == action.event
        data == action.data
        d == StoreDispatch(
                 Obj("EMIT: " \o Template(event), Undefined, Undefined, data,
                     Str("SOCKET.IO EMIT")),
                 ls, nid, depth, nr)
    IN  IF d.threw THEN d
        ELSE Outcome(d.listeners, d.nextId,
                     d.trace \o <<EffEmit(depth, event, data)>>,
                     FALSE, SocketEmit(event, data))

\* A pass-through that drops what next returned.
NextCase_DropsResult(action, ls, nid, depth, nr) ==
    Outcome(ls, nid, <<EffNext(depth, action)>>, FALSE, Undefined)

\* return next(action)
NextCase(action, ls, nid, depth, nr) ==
    Outcome(ls, nid, <<EffNext(depth, action)>>, FALSE, nr)

\* ({ dispatch }) => (next) => (action) => { ... }
socketMiddleware(action, ls, nid, depth, nr) ==
    IF action.typeof = "function" THEN NextCase(action, ls, nid, depth, nr)
    ELSE CASE action.type = SOCKET_ACTIONS.SUBSCRIBE ->
                  SubscribeCase(action, ls, nid, depth, nr)
           [] action.type = SOCKET_ACTIONS.UNSUBSCRIBE ->
                  UnsubscribeCase(action, ls, nid, depth, nr)
           [] action.type = SOCKET_ACTIONS.EMIT ->
                  EmitCase(action, ls, nid, depth, nr)
           [] OTHER -> NextCase(action, ls, nid, depth, nr)

\* The socket calls one listener with the data of an inbound event.
InvokeListener(fn, data, ls, nid, nr) ==
    IF fn.id > 0
    THEN LET r == defaultHandleCall(fn, data, ls, nid, nr)
         IN  [r EXCEPT !.trace = <<EffInvoke(fn, data)>> \o @]
    ELSE Outcome(ls, nid, <<EffInvoke(fn, data)>>, FALSE, Undefined)

\* A socket that calls only the first listener of an event.
InvokeAll_OnlyFirst(cbs, data, ls, nid, nr) ==
    IF cbs = <<>> THEN Outcome(ls, nid, <<>>, FALSE, Undefined)
    ELSE InvokeListener(Head(cbs), data, ls, nid, nr)

\* The socket calls, in order, the listeners an event had when it arrived.
RECURSIVE InvokeAll(_, _, _, _, _)
InvokeAll(cbs, data, ls, nid, nr) ==
    IF cbs = <<>> THEN Outcome(ls, nid, <<>>, FALSE, Undefined)
    ELSE LET r == InvokeListener(Head(cbs), data, ls, nid, nr)
             rest == InvokeAll(Tail(cbs), data, r.listeners, r.nextId, nr)
         IN  [rest EXCEPT !.trace = r.trace \o @]

----------------------------------------------------------------------------
(* The state: the socket's listeners, the number of closures defaultHandle  *)
(* has made, and the calls made so far with what each did.                  *)

VARIABLES listeners, nextId, calls

vars == <<listeners, nextId, calls>>

Init ==
    /\ listeners = [e \in Events |-> <<>>]
    /\ nextId = 1
    /\ calls = <<>>

\* What next returned to the call itself, when the call called next.
NextReturned(r, nr) ==
    IF \E i \in DOMAIN r.trace : r.trace[i].op = "next" /\ r.trace[i].depth = 0
    THEN nr ELSE Undefined

\* The call of an actionCreator function that made a dispatched action.
Made(creator, event, handle, data) ==
    [creator |-> creator, event |-> event, handle |-> handle, data |-> data]

\* For what no actionCreator function made.
NotMade == Made("none", Undefined, Undefined, Undefined)

CallRec(kind, made, input, nr, r) ==
    [kind |-> kind, made |-> made, input |-> input,
     nextReturned |-> NextReturned(r, nr),
     pre |-> listeners, post |-> r.listeners,
     trace |-> r.trace, threw |-> r.threw, value |-> r.value]

\* The references the caller can hold: its own functions, and the handlers
\* earlier SUBSCRIBE calls returned.
Returned ==
    {calls[i].value : i \in {j \in DOMAIN calls :
        /\ calls[j].kind = "process"
        /\ calls[j].input.type = SOCKET_ACTIONS.SUBSCRIBE
        /\ ~calls[j].threw}}

Callables == UserFns \cup Returned
Handles == Callables \cup {Undefined, NotCallable}

\* One call of the middleware with `action`, which the actionCreator call
\* `made` returned, next returning nr.
Process(made, action, nr) ==
    LET r == socketMiddleware(action, listeners, nextId, 0, nr)
    IN  /\ listeners' = r.listeners
        /\ nextId' = r.nextId
        /\ calls' = Append(calls, CallRec("process", made, action, nr, r))

Emit ==
    \E e \in Events, d \in Payloads, nr \in NextReturns :
        /\ Len(calls) < MaxCalls
        /\ Process(Made("emit", Str(e), Undefined, Str(d)),
                   emit(Str(e), Str(d)), nr)

Subscribe ==
    \E e \in Events, h \in Handles, nr \in NextReturns :
        /\ Len(calls) < MaxCalls
        /\ Process(Made("subscribe", Str(e), h, Undefined),
                   subscribe(Str(e), h), nr)

Unsubscribe ==
    \E e \in Events, h \in Handles, nr \in NextReturns :
        /\ Len(calls) < MaxCalls
        /\ Process(Made("unsubscribe", Str(e), h, Undefined),
                   unsubscribe(Str(e), h), nr)

\* Values with no recognized type: a thunk, and objects of other types.
PassThroughs ==
    {Thunk,
     Obj(SOCKET_ACTIONS.EVENT_RECEIVED, Str("e1"), UserFn("f"), Str("d1"), Undefined),
     Obj("EMIT: e1", Undefined, Undefined, Str("d1"), Str("SOCKET.IO EMIT"))}

PassThrough ==
    \E a \in PassThroughs, nr \in NextReturns :
        /\ Len(calls) < MaxCalls
        /\ Process(NotMade, a, nr)

\* An inbound event e with data d reaches the socket, which calls the
\* listeners of e.
Deliver ==
    \E e \in Events, d \in Payloads, nr \in NextReturns :
        /\ Len(calls) < MaxCalls
        /\ LET r == InvokeAll(listeners[e], Str(d), listeners, nextId, nr)
           IN  /\ listeners' = r.listeners
               /\ nextId' = r.nextId
               /\ calls' = Append(calls,
                      CallRec("deliver", NotMade,
                              [event |-> Str(e), data |-> Str(d)], nr, r))

Next == Emit \/ Subscribe \/ Unsubscribe \/ PassThrough \/ Deliver

Spec == Init /\ [][Next]_vars

----------------------------------------------------------------------------
(* Reading the record of calls.                                             *)

IsProcess(c, type) ==
    c.kind = "process" /\ c.input.typeof = "object" /\ c.input.type = type

IsPassThrough(c) ==
    /\ c.kind = "process"
    /\ \/ c.input.typeof = "function"
       \/ c.input.type \notin {SOCKET_ACTIONS.SUBSCRIBE, SOCKET_ACTIONS.UNSUBSCRIBE,
                               SOCKET_ACTIONS.EMIT}

IsCallable(v) == v.typeof = "function"

\* The positions of a trace where the call itself (depth 0) did `op`.
At(trace, op) ==
    {i \in DOMAIN trace : trace[i].op = op /\ trace[i].depth = 0}

ChannelOps == {"emit", "on", "removeListener"}

TouchesChannel(trace) == \E i \in DOMAIN trace : trace[i].op \in ChannelOps

CountIn(seq, x) == Cardinality({i \in DOMAIN seq : seq[i] = x})

Range(seq) == {seq[i] : i \in DOMAIN seq}

\* The positions of a trace where `op` was done, by the call or inside it.
Ops(trace, op) == {i \in DOMAIN trace : trace[i].op = op}

----------------------------------------------------------------------------
(* C1: one call with an EMIT action dispatches exactly one record           *)
(* {type: "EMIT: <event>", action, data} and sends (event, data) on the     *)
(* socket exactly once, the dispatch first; it returns what the send        *)
(* returned and does not itself call next.                                  *)
C1_EmitOnce ==
    \A n \in DOMAIN calls :
        LET c == calls[n] IN
        IsProcess(c, SOCKET_ACTIONS.EMIT) =>
            LET ds == Ops(c.trace, "dispatch")
                ss == Ops(c.trace, "emit")
            IN  /\ Cardinality(ds) = 1
                /\ Cardinality(ss) = 1
                /\ \A i \in ds, j \in ss :
                     /\ i < j
                     /\ c.trace[i].depth = 0
                     /\ c.trace[i].arg.type = "EMIT: " \o c.input.event.name
                     /\ c.trace[i].arg.action.typeof = "string"
                     /\ c.trace[i].arg.data = c.input.data
                     /\ c.trace[j].event = c.input.event
                     /\ c.trace[j].data = c.input.data
                /\ At(c.trace, "next") = {}
                /\ ~c.threw
                /\ c.value = SocketEmit(c.input.event, c.input.data)

C1_Witness ==
    \E n \in DOMAIN calls :
        /\ n > 1
        /\ IsProcess(calls[n], SOCKET_ACTIONS.EMIT)
        /\ calls[n].input.event = Str("e2")
        /\ calls[n].input.data = Str("d2")
        /\ calls[n].pre["e2"] # <<>>
        /\ Len(calls[n].trace) = 3

(* C2: one call with a SUBSCRIBE action dispatches one subscribe record,    *)
(* then adds exactly one listener for the event to the socket; it returns   *)
(* a function, which is the listener it registered, and which is the        *)
(* handle of the action when that is a function.                            *)
C2_SubscribeRegistersOne ==
    \A n \in DOMAIN calls :
        LET c == calls[n] IN
        IsProcess(c, SOCKET_ACTIONS.SUBSCRIBE) =>
            LET e == c.input.event.name
                ds == Ops(c.trace, "dispatch")
                os == Ops(c.trace, "on")
            IN  /\ ~c.threw
                /\ Cardinality(ds) = 1
                /\ Cardinality(os) = 1
                /\ \A i \in ds, j \in os :
                     /\ i < j
                     /\ c.trace[i].depth = 0
                     /\ c.trace[i].arg.type = "SUBSCRIBE: " \o e
                     /\ c.trace[i].arg.event = c.input.event
                     /\ c.trace[j].event = c.input.event
                     /\ c.trace[j].handle = c.value
                /\ Ops(c.trace, "emit") = {}
                /\ Ops(c.trace, "removeListener") = {}
                /\ c.post = [c.pre EXCEPT ![e] = Append(@, c.value)]
                /\ IsCallable(c.value)
                /\ IsCallable(c.input.handle) => c.value = c.input.handle

C2_Witness ==
    \E n, m \in DOMAIN calls :
        /\ n < m
        /\ IsProcess(calls[n], SOCKET_ACTIONS.SUBSCRIBE)
        /\ calls[n].input.handle = Undefined
        /\ IsProcess(calls[m], SOCKET_ACTIONS.SUBSCRIBE)
        /\ calls[m].input.event = calls[n].input.event
        /\ calls[m].input.handle = UserFn("g")
        /\ Len(listeners[calls[m].input.event.name]) = 2

\* The SUBSCRIBE calls that were given no function, and so made a default
\* handler.
DefaultSubs ==
    {n \in DOMAIN calls :
        /\ IsProcess(calls[n], SOCKET_ACTIONS.SUBSCRIBE)
        /\ ~IsCallable(calls[n].input.handle)}

\* What the invocation at position i of a delivery's trace did: the
\* positions after i up to the next invocation.
Segment(trace, i) ==
    {j \in DOMAIN trace : j > i /\ \A k \in (i + 1)..j : trace[k].op # "invoke"}

(* C3: after a SUBSCRIBE for event e without a handler, each invocation of  *)
(* the handler it registered, with some data, dispatches exactly one record *)
(* {type: "RECEIVE: e", data} with e the event of that SUBSCRIBE and data   *)
(* the data of the invocation, and does nothing to the socket.              *)
C3_RoundTrip ==
    \A s \in DefaultSubs, n \in DOMAIN calls :
        LET c == calls[n] IN
        (n > s /\ c.kind = "deliver") =>
            \A i \in Ops(c.trace, "invoke") :
                c.trace[i].handle = calls[s].value =>
                    LET seg == Segment(c.trace, i)
                        ds == {j \in seg : c.trace[j].op = "dispatch"}
                    IN  /\ c.trace[i].data = c.input.data
                        /\ Cardinality(ds) = 1
                        /\ \A j \in ds :
                             c.trace[j].arg =
                                 Obj("RECEIVE: " \o calls[s].input.event.name,
                                     Undefined, Undefined, c.input.data, Undefined)
                        /\ \A j \in seg : c.trace[j].op \notin ChannelOps
                        /\ c.post = c.pre

C3_Witness ==
    \E s \in DefaultSubs, n \in DOMAIN calls :
        /\ n > s
        /\ calls[s].input.handle = Undefined
        /\ calls[s].input.event = Str("e2")
        /\ calls[n].kind = "deliver"
        /\ calls[n].input.data = Str("d2")
        /\ \E i \in Ops(calls[n].trace, "invoke") :
               calls[n].trace[i].handle = calls[s].value

\* Call n is SUBSCRIBE(e, h) with h a function and call n + 1 is
\* UNSUBSCRIBE(e, h) with the same reference.
SubThenUnsub(n) ==
    /\ n \in DOMAIN calls /\ n + 1 \in DOMAIN calls
    /\ IsProcess(calls[n], SOCKET_ACTIONS.SUBSCRIBE)
    /\ IsCallable(calls[n].input.handle)
    /\ IsProcess(calls[n + 1], SOCKET_ACTIONS.UNSUBSCRIBE)
    /\ calls[n + 1].input.event = calls[n].input.event
    /\ calls[n + 1].input.handle = calls[n].input.handle

\* The listeners of a callback array other than h, in order.
Others(cbs, h) == LET Keep(x) == x # h IN SelectSeq(cbs, Keep)

\* How often a delivery's trace shows the socket invoking h.
Invocations(trace, h) ==
    Cardinality({i \in Ops(trace, "invoke") : trace[i].handle = h})

(* C4 as stated: after SUBSCRIBE(e, h) and then UNSUBSCRIBE(e, h) with the  *)
(* same function h, a delivery of e does not reach h (h is no listener of   *)
(* e), and every other registered listener is still registered.             *)
C4_Original ==
    \A n \in DOMAIN calls :
        SubThenUnsub(n) =>
            LET e == calls[n].input.event.name
                h == calls[n].input.handle
                after == calls[n + 1].post
            IN  /\ h \notin Range(after[e])
                /\ \A k \in DOMAIN calls :
                     (k = n + 2 /\ calls[k].kind = "deliver"
                      /\ calls[k].input.event.name = e)
                         => Invocations(calls[k].trace, h) = 0
                /\ Others(after[e], h) = Others(calls[n].pre[e], h)
                /\ \A e2 \in Events \ {e} : after[e2] = calls[n].pre[e2]

(* C4, amended: SUBSCRIBE(e, h) and then UNSUBSCRIBE(e, h) with the same    *)
(* function h removes exactly one registration of h for e: afterwards h is  *)
(* registered for e as often as before the SUBSCRIBE, a delivery of e       *)
(* reaches h that often (not at all when h was not registered before), and  *)
(* every other registered listener is still registered.                     *)
C4_SubscribeThenUnsubscribe ==
    \A n \in DOMAIN calls :
        SubThenUnsub(n) =>
            LET e == calls[n].input.event.name
                h == calls[n].input.handle
                before == calls[n].pre
                after == calls[n + 1].post
            IN  /\ ~calls[n + 1].threw
                /\ Cardinality(Ops(calls[n + 1].trace, "removeListener")) = 1
                /\ CountIn(after[e], h) = CountIn(before[e], h)
                /\ (h \notin Range(before[e]) => h \notin Range(after[e]))
                /\ \A k \in DOMAIN calls :
                     (k = n + 2 /\ calls[k].kind = "deliver"
                      /\ calls[k].input.event.name = e)
                         => Invocations(calls[k].trace, h) = CountIn(before[e], h)
                /\ Others(after[e], h) = Others(before[e], h)
                /\ \A e2 \in Events \ {e} : after[e2] = before[e2]

C4_Witness ==
    /\ SubThenUnsub(1)
    /\ calls[1].input.handle = UserFn("f")
    /\ Len(calls) = 3
    /\ calls[3].kind = "deliver"
    /\ calls[3].input.event = calls[1].input.event
    /\ calls[3].trace = <<>>

(* C5: a call with an UNSUBSCRIBE action whose handle is not a function     *)
(* (absent included) throws to the caller, calls removeListener not at all, *)
(* and leaves the socket's listeners as they were.                          *)
C5_InvalidUnsubscribe ==
    \A n \in DOMAIN calls :
        LET c == calls[n] IN
        (IsProcess(c, SOCKET_ACTIONS.UNSUBSCRIBE) /\ ~IsCallable(c.input.handle)) =>
            /\ c.threw
            /\ c.value = ErrorOf("Unable to unsubscribe to " \o c.input.event.name
                                 \o ", without a function reference.")
            /\ Ops(c.trace, "removeListener") = {}
            /\ ~TouchesChannel(c.trace)
            /\ c.post = c.pre

C5_Witness ==
    \E n, m \in DOMAIN calls :
        /\ IsProcess(calls[n], SOCKET_ACTIONS.UNSUBSCRIBE)
        /\ calls[n].input.handle = NotCallable
        /\ calls[n].threw
        /\ calls[n].pre[calls[n].input.event.name] # <<>>
        /\ IsProcess(calls[m], SOCKET_ACTIONS.UNSUBSCRIBE)
        /\ calls[m].input.handle = Undefined
        /\ calls[m].threw

(* C6: a dispatched value with no recognized type (a function, or an object *)
(* whose type is not SUBSCRIBE, UNSUBSCRIBE or EMIT) is passed to next once *)
(* and unchanged, what next returned is returned, and nothing else happens: *)
(* no dispatch, no socket operation, the listeners as they were.            *)
C6_PassThrough ==
    \A n \in DOMAIN calls :
        LET c == calls[n] IN
        IsPassThrough(c) =>
            /\ c.trace = <<EffNext(0, c.input)>>
            /\ ~c.threw
            /\ c.nextReturned \in NextReturns
            /\ c.value = c.nextReturned
            /\ c.post = c.pre

C6_Witness ==
    \E n, m \in DOMAIN calls :
        /\ IsPassThrough(calls[n])
        /\ calls[n].input.typeof = "function"
        /\ calls[n].pre["e1"] # <<>>
        /\ IsPassThrough(calls[m])
        /\ calls[m].input.typeof = "object"
        /\ calls[m].input.type = SOCKET_ACTIONS.EVENT_RECEIVED
        /\ calls[m].value # calls[n].value

\* Call n is a completed SUBSCRIBE that registered cb for e.
SubscribedAt(n, e, cb) ==
    /\ IsProcess(calls[n], SOCKET_ACTIONS.SUBSCRIBE)
    /\ ~calls[n].threw
    /\ calls[n].input.event.name = e
    /\ calls[n].value = cb

\* Call n is a completed UNSUBSCRIBE of cb for e.
UnsubscribedAt(n, e, cb) ==
    /\ IsProcess(calls[n], SOCKET_ACTIONS.UNSUBSCRIBE)
    /\ ~calls[n].threw
    /\ calls[n].input.event.name = e
    /\ calls[n].input.handle = cb

(* C7 as stated: cb is a listener of e exactly when some SUBSCRIBE for      *)
(* (e, cb) has completed and no UNSUBSCRIBE for (e, cb) has completed after *)
(* it, also when cb is subscribed to e more than once.                      *)
C7_Original ==
    \A e \in Events, cb \in Callables :
        cb \in Range(listeners[e]) <=>
            \E n \in DOMAIN calls :
                /\ SubscribedAt(n, e, cb)
                /\ ~\E m \in DOMAIN calls : m > n /\ UnsubscribedAt(m, e, cb)

\* The SUBSCRIBEs for (e, cb) among calls 1..n that no UNSUBSCRIBE has
\* cancelled, each completed UNSUBSCRIBE for (e, cb) cancelling one.
RECURSIVE Open(_, _, _)
Open(n, e, cb) ==
    IF n = 0 THEN 0
    ELSE LET b == Open(n - 1, e, cb)
         IN  IF SubscribedAt(n, e, cb) THEN b + 1
             ELSE IF UnsubscribedAt(n, e, cb) /\ b > 0 THEN b - 1
             ELSE b

(* C7, amended: cb is registered for e once for each completed SUBSCRIBE    *)
(* for (e, cb) that is not cancelled, where a completed UNSUBSCRIBE for     *)
(* (e, cb) cancels one earlier SUBSCRIBE for (e, cb), not all of them; so   *)
(* cb is a listener of e exactly when a SUBSCRIBE for it is uncancelled.    *)
C7_RegistrationLifecycle ==
    LET cbs == Callables
    IN  \A e \in Events :
            /\ Range(listeners[e]) \subseteq cbs
            /\ \A cb \in cbs :
                   CountIn(listeners[e], cb) = Open(Len(calls), e, cb)

C7_Witness ==
    /\ Len(calls) = 3
    /\ SubscribedAt(1, "e1", UserFn("f"))
    /\ SubscribedAt(2, "e1", UserFn("f"))
    /\ UnsubscribedAt(3, "e1", UserFn("f"))
    /\ listeners["e1"] = <<UserFn("f")>>

\* Call c is a completed UNSUBSCRIBE of cb for e.
IsUnsubscribeOf(c, e, cb) ==
    /\ IsProcess(c, SOCKET_ACTIONS.UNSUBSCRIBE)
    /\ ~c.threw
    /\ c.input.event.name = e
    /\ c.input.handle = cb

\* s is the beginning of t.
IsPrefix(s, t) == Len(s) <= Len(t) /\ SubSeq(t, 1, Len(s)) = s

(* C8: a registration is removed only by a completed UNSUBSCRIBE that names *)
(* its event and its very callback: every other call (EMIT, SUBSCRIBE, a    *)
(* pass-through, a failed UNSUBSCRIBE, an inbound delivery) leaves all      *)
(* registrations in place, and an UNSUBSCRIBE leaves those of other events  *)
(* and other callbacks in place.                                            *)
C8_OnlyMatchingUnsubscribeRemoves ==
    \A n \in DOMAIN calls :
        LET c == calls[n] IN
        /\ \A e \in Events :
             \A cb \in Range(c.pre[e]) :
                 CountIn(c.post[e], cb) < CountIn(c.pre[e], cb)
                     => IsUnsubscribeOf(c, e, cb)
        /\ \A e \in Events :
             (~\E cb \in Range(c.pre[e]) : IsUnsubscribeOf(c, e, cb))
                 => IsPrefix(c.pre[e], c.post[e])

C8_Witness ==
    /\ Len(calls) = 3
    /\ SubscribedAt(1, "e1", UserFn("f"))
    /\ IsProcess(calls[2], SOCKET_ACTIONS.UNSUBSCRIBE)
    /\ calls[2].input.event = Str("e1")
    /\ calls[2].threw
    /\ IsUnsubscribeOf(calls[3], "e1", UserFn("g"))
    /\ listeners["e1"] = <<UserFn("f")>>

\* What a recorded call does when it is made with listeners ls and closure
\* counter nid.
Rerun(c, ls, nid) ==
    IF c.kind = "process"
    THEN socketMiddleware(c.input, ls, nid, 0, c.nextReturned)
    ELSE InvokeAll(ls[c.input.event.name], c.input.data, ls, nid, c.nextReturned)

\* What the caller and the socket see of a call.
Seen(trace, threw, value, post) ==
    [trace |-> trace, threw |-> threw, value |-> value, post |-> post]

\* What calls n..Len(calls) do, call `skip` left out, when made from the
\* listeners ls and the closure counter nid (for the whole run: the listeners
\* the first call found, and the counter of Init).
RECURSIVE Replay(_, _, _, _)
Replay(n, skip, ls, nid) ==
    IF n > Len(calls) THEN <<>>
    ELSE IF n = skip THEN Replay(n + 1, skip, ls, nid)
    ELSE LET r == Rerun(calls[n], ls, nid)
         IN  <<Seen(r.trace, r.threw, r.value, r.listeners)>>
                 \o Replay(n + 1, skip, r.listeners, r.nextId)

\* What calls n..Len(calls) did, call `skip` left out.
RECURSIVE Recorded(_, _)
Recorded(n, skip) ==
    IF n > Len(calls) THEN <<>>
    ELSE IF n = skip THEN Recorded(n + 1, skip)
    ELSE <<Seen(calls[n].trace, calls[n].threw, calls[n].value, calls[n].post)>>
             \o Recorded(n + 1, skip)

(* C9: a call that throws is an UNSUBSCRIBE whose only effects are the one  *)
(* provenance dispatch and the error thrown to the caller; every other call *)
(* and inbound delivery of the run, the later ones included, does exactly   *)
(* what it would do had the failed call not been made.                      *)
C9_FailedUnsubscribeAbortsOnlyItself ==
    \A n \in DOMAIN calls :
        LET c == calls[n] IN
        c.threw =>
            LET prov == Obj("UNSUBSCRIBE " \o c.input.event.name, c.input.event,
                            Undefined, Undefined, Undefined)
            IN  /\ IsProcess(c, SOCKET_ACTIONS.UNSUBSCRIBE)
                /\ ~IsCallable(c.input.handle)
                /\ c.trace = <<EffDispatch(0, prov), EffNext(1, prov)>>
                /\ c.post = c.pre
                /\ Replay(1, n, calls[1].pre, 1) = Recorded(1, n)

C9_Witness ==
    /\ Len(calls) = 3
    /\ IsProcess(calls[1], SOCKET_ACTIONS.SUBSCRIBE)
    /\ calls[1].input.handle = Undefined
    /\ calls[2].threw
    /\ calls[2].input.event = calls[1].input.event
    /\ calls[3].kind = "deliver"
    /\ calls[3].input.event = calls[1].input.event
    /\ Len(calls[3].trace) = 3

\* The sequences of a sequence of sequences, one after the other.
RECURSIVE Concat(_)
Concat(ss) == IF ss = <<>> THEN <<>> ELSE Head(ss) \o Concat(Tail(ss))

IsIntent(c) ==
    \/ IsProcess(c, SOCKET_ACTIONS.EMIT)
    \/ IsProcess(c, SOCKET_ACTIONS.SUBSCRIBE)
    \/ IsProcess(c, SOCKET_ACTIONS.UNSUBSCRIBE)

\* The socket operations of a trace, in order.
ChannelPart(trace) ==
    LET Keep(x) == x.op \in ChannelOps IN SelectSeq(trace, Keep)

\* The records a call itself dispatched, in order.
DispatchPart(trace) ==
    LET Keep(x) == x.op = "dispatch" /\ x.depth = 0 IN SelectSeq(trace, Keep)

\* The socket operation an intent asks for.
WantedChannel(c) ==
    IF IsProcess(c, SOCKET_ACTIONS.EMIT)
    THEN <<EffEmit(0, c.input.event, c.input.data)>>
    ELSE IF IsProcess(c, SOCKET_ACTIONS.SUBSCRIBE)
    THEN <<EffOn(0, c.input.event, c.value)>>
    ELSE IF IsProcess(c, SOCKET_ACTIONS.UNSUBSCRIBE) /\ IsCallable(c.input.handle)
    THEN <<EffRemove(0, c.input.event, c.input.handle)>>
    ELSE <<>>

\* The type of the provenance record of an intent.
WantedProvenance(c) ==
    IF IsProcess(c, SOCKET_ACTIONS.EMIT)
    THEN <<"EMIT: " \o c.input.event.name>>
    ELSE IF IsProcess(c, SOCKET_ACTIONS.SUBSCRIBE)
    THEN <<"SUBSCRIBE: " \o c.input.event.name>>
    ELSE IF IsProcess(c, SOCKET_ACTIONS.UNSUBSCRIBE)
    THEN <<"UNSUBSCRIBE " \o c.input.event.name>>
    ELSE <<>>

\* The calls that are intents, in the order they were dispatched.
Intents == SelectSeq(calls, IsIntent)

\* The types of the records a call itself dispatched, in order.
DispatchedTypes(trace) ==
    LET dp == DispatchPart(trace) IN [i \in DOMAIN dp |-> dp[i].arg.type]

(* C10: the socket operations the socket sees, and the provenance records   *)
(* the store sees, are those of the dispatched intents in the order the     *)
(* intents were dispatched, one intent's all before the next intent's; no   *)
(* other call performs a socket operation.                                  *)
C10_DispatchOrder ==
    LET ints == Intents
    IN  /\ Concat([n \in DOMAIN calls |-> ChannelPart(calls[n].trace)])
               = Concat([n \in DOMAIN ints |-> WantedChannel(ints[n])])
        /\ Concat([n \in DOMAIN ints |-> DispatchedTypes(ints[n].trace)])
               = Concat([n \in DOMAIN ints |-> WantedProvenance(ints[n])])
        /\ \A n \in DOMAIN calls :
               ~IsIntent(calls[n]) => ~TouchesChannel(calls[n].trace)

C10_Witness ==
    /\ Len(Intents) = 3
    /\ IsProcess(calls[1], SOCKET_ACTIONS.SUBSCRIBE)
    /\ IsProcess(calls[2], SOCKET_ACTIONS.EMIT)
    /\ IsProcess(calls[3], SOCKET_ACTIONS.UNSUBSCRIBE)
    /\ ~calls[3].threw
    /\ calls[3].input.handle = calls[1].value

----------------------------------------------------------------------------
\* The call that led to this state.  Every recorded call is the last call
\* of the state it led to.
Last == calls[Len(calls)]

(* C11: an UNSUBSCRIBE with a function as handle dispatches one record      *)
(* {type: "UNSUBSCRIBE <event>", event}, then calls removeListener(event,   *)
(* handle) once, returns undefined and does not call next; and no           *)
(* SUBSCRIBE, UNSUBSCRIBE or EMIT action is passed to next.                 *)
C11_UnsubscribeReturnsNothing ==
    calls # <<>> =>
        LET c == Last
            prov == Obj("UNSUBSCRIBE " \o c.input.event.name, c.input.event,
                        Undefined, Undefined, Undefined)
        IN  /\ (IsProcess(c, SOCKET_ACTIONS.UNSUBSCRIBE) /\ IsCallable(c.input.handle)) =>
                   /\ c.trace = <<EffDispatch(0, prov), EffNext(1, prov),
                                  EffRemove(0, c.input.event, c.input.handle)>>
                   /\ ~c.threw
                   /\ c.value = Undefined
            /\ IsIntent(c) =>
                   \A i \in Ops(c.trace, "next") :
                       c.trace[i].depth > 0 /\ c.trace[i].arg # c.input

C11_Witness ==
    /\ Len(calls) = 3
    /\ IsUnsubscribeOf(Last, "e1", UserFn("f"))
    /\ Last.pre["e1"] = <<UserFn("g"), UserFn("f")>>
    /\ listeners["e1"] = <<UserFn("g")>>

\* The type of the first record a call dispatched: the case it took.
FirstDispatched(c) ==
    IF c.trace # <<>> /\ c.trace[1].op = "dispatch" THEN c.trace[1].arg.type
    ELSE "none"

(* C12: emit(event, data), subscribe(event, handle) and unsubscribe(event,  *)
(* handle) return an action of type EMIT, SUBSCRIBE and UNSUBSCRIBE that    *)
(* carries exactly the arguments given, whatever they are (a handle that is *)
(* no function included); the middleware takes the case of that type.       *)
C12_Constructors ==
    calls # <<>> =>
        LET c == Last
            m == c.made
        IN  /\ m.creator = "emit" =>
                   /\ c.input = [typeof |-> "object", type |-> "SOCKET_IO_EMIT",
                                 event |-> m.event, handle |-> Undefined,
                                 data |-> m.data, action |-> Undefined]
                   /\ FirstDispatched(c) = "EMIT: " \o m.event.name
            /\ m.creator = "subscribe" =>
                   /\ c.input = [typeof |-> "object", type |-> "SOCKET_IO_SUBSCRIBE",
                                 event |-> m.event, handle |-> m.handle,
                                 data |-> Undefined, action |-> Undefined]
                   /\ FirstDispatched(c) = "SUBSCRIBE: " \o m.event.name
            /\ m.creator = "unsubscribe" =>
                   /\ c.input = [typeof |-> "object", type |-> "SOCKET_IO_UNSUBSCRIBE",
                                 event |-> m.event, handle |-> m.handle,
                                 data |-> Undefined, action |-> Undefined]
                   /\ FirstDispatched(c) = "UNSUBSCRIBE " \o m.event.name

C12_Witness ==
    /\ Len(calls) = 3
    /\ calls[1].made = Made("subscribe", Str("e1"), NotCallable, Undefined)
    /\ calls[2].made = Made("unsubscribe", Str("e1"), Undefined, Undefined)
    /\ calls[2].threw
    /\ calls[3].made = Made("emit", Str("e2"), Undefined, Str("d2"))

\* The socket operation a provenance record of the given type describes,
\* for an intent on event e.
Describes(type, e) ==
    IF type = "EMIT: " \o e THEN "emit"
    ELSE IF type = "SUBSCRIBE: " \o e THEN "on"
    ELSE IF type = "UNSUBSCRIBE " \o e THEN "removeListener"
    ELSE "none"

(* C13: every provenance record a call dispatches describes a socket        *)
(* operation the same call performs: each EMIT record comes with one emit,  *)
(* each SUBSCRIBE record with one on, each UNSUBSCRIBE record with one      *)
(* removeListener.                                                          *)
C13_ProvenanceAccompanied ==
    calls # <<>> =>
        LET c == Last
        IN  IsIntent(c) =>
                \A i \in At(c.trace, "dispatch") :
                    LET op == Describes(c.trace[i].arg.type, c.input.event.name)
                    IN  /\ op \in ChannelOps
                        /\ Cardinality(At(c.trace, op)) = 1

\* The handle field of the provenance record a SUBSCRIBE call dispatched.
ProvenanceHandle(c) == c.trace[1].arg.handle

\* The callback of a SUBSCRIBE call without a function as handle is a
\* default handler made by that call, registered and returned.
SynthesizedCallback(c) ==
    /\ ~c.threw
    /\ c.value.typeof = "function"
    /\ c.value.id > 0
    /\ c.value # c.input.handle
    /\ c.value \notin Range(c.pre[c.input.event.name])
    /\ c.post[c.input.event.name] = Append(c.pre[c.input.event.name], c.value)

(* C14 as stated: the handle field of the SUBSCRIBE provenance record is    *)
(* the tag "function: <name>" when the handle is a function, and otherwise  *)
(* the handle as given, which is undefined; without a function as handle    *)
(* the registered and returned callback is a default handler, not the       *)
(* handle.                                                                  *)
C14_Original ==
    calls # <<>> =>
        LET c == Last
        IN  IsProcess(c, SOCKET_ACTIONS.SUBSCRIBE) =>
                IF IsCallable(c.input.handle)
                THEN ProvenanceHandle(c) = Str("function: " \o c.input.handle.name)
                ELSE /\ ProvenanceHandle(c) = c.input.handle
                     /\ ProvenanceHandle(c) = Undefined
                     /\ SynthesizedCallback(c)

(* C14: the handle field of the SUBSCRIBE provenance record is the tag      *)
(* "function: <name>" when the handle is a function, and otherwise the      *)
(* handle as given: undefined when none was given, the value itself when it *)
(* is a value that is no function; without a function as handle the         *)
(* registered and returned callback is a default handler, not the handle.   *)
C14_ProvenanceHandle ==
    calls # <<>> =>
        LET c == Last
        IN  IsProcess(c, SOCKET_ACTIONS.SUBSCRIBE) =>
                /\ c.trace[1].op = "dispatch"
                /\ IF IsCallable(c.input.handle)
                   THEN /\ ProvenanceHandle(c) = Str("function: " \o c.input.handle.name)
                        /\ c.value = c.input.handle
                   ELSE /\ ProvenanceHandle(c) = c.input.handle
                        /\ c.input.handle \in {Undefined, NotCallable}
                        /\ SynthesizedCallback(c)

C14_Witness ==
    /\ Len(calls) = 3
    /\ IsProcess(calls[1], SOCKET_ACTIONS.SUBSCRIBE)
    /\ calls[1].input.handle = NotCallable
    /\ ProvenanceHandle(calls[1]) = NotCallable
    /\ IsProcess(calls[2], SOCKET_ACTIONS.SUBSCRIBE)
    /\ calls[2].input.handle = Undefined
    /\ ProvenanceHandle(calls[2]) = Undefined
    /\ IsProcess(calls[3], SOCKET_ACTIONS.SUBSCRIBE)
    /\ calls[3].input.handle = UserFn("f")
    /\ ProvenanceHandle(calls[3]) = Str("function: f")

\* The records dispatched by the invocations of h in a trace, in order; cur
\* is the listener the socket is invoking.
RECURSIVE ReceivedBy(_, _, _)
ReceivedBy(trace, h, cur) ==
    IF trace = <<>> THEN <<>>
    ELSE LET x == Head(trace)
         IN  IF x.op = "invoke" THEN ReceivedBy(Tail(trace), h, x.handle)
             ELSE IF x.op = "dispatch" /\ cur = h
             THEN <<x.arg>> \o ReceivedBy(Tail(trace), h, cur)
             ELSE ReceivedBy(Tail(trace), h, cur)

\* No call after call s up to call n names the handler call s returned: the
\* calls between are for other registrations.
OthersOnly(s, n) ==
    \A k \in (s + 1)..n :
        calls[k].kind = "process" /\ calls[k].input.typeof = "object"
            => calls[k].input.handle # calls[s].value

\* The records the handler of subscription s dispatched in calls s+1..n.
RECURSIVE Received(_, _)
Received(s, n) ==
    IF n <= s THEN <<>>
    ELSE Received(s, n - 1) \o
         (IF calls[n].kind = "deliver"
          THEN ReceivedBy(calls[n].trace, calls[s].value, Undefined)
          ELSE <<>>)

\* One RECEIVE record for each delivery of the event of subscription s in
\* calls s+1..n, in the order of the deliveries.
RECURSIVE Delivered(_, _)
Delivered(s, n) ==
    IF n <= s THEN <<>>
    ELSE Delivered(s, n - 1) \o
         (IF calls[n].kind = "deliver" /\ calls[n].input.event = calls[s].input.event
          THEN <<Obj("RECEIVE: " \o calls[s].input.event.name, Undefined,
                     Undefined, calls[n].input.data, Undefined)>>
          ELSE <<>>)

DefaultsOf(e, n) ==
    {s \in DefaultSubs : s <= n /\ calls[s].input.event.name = e}

\* None of the first n calls names a default handler as its handle: every
\* default handler is registered once and none is unsubscribed.
NoneNamed(n) ==
    \A k \in 1..n :
        calls[k].kind = "process" /\ calls[k].input.typeof = "object"
            => calls[k].input.handle.id = 0

\* The default handlers among the listeners cbs, in order.
DefaultListeners(cbs) == LET Keep(h) == h.id > 0 IN SelectSeq(cbs, Keep)

\* The RECEIVE records for event e that a trace shows dispatched.
Receives(trace, e) ==
    {i \in At(trace, "dispatch") : trace[i].arg.type = "RECEIVE: " \o e}

(* C16: each SUBSCRIBE without a handler returns a default handler that is  *)
(* none of the earlier ones; after n such SUBSCRIBEs of one event, none     *)
(* unsubscribed, the event has n distinct default listeners and a delivery  *)
(* of it dispatches exactly n RECEIVE records; an UNSUBSCRIBE with one of   *)
(* the returned handlers removes that one only and leaves n - 1.            *)
C16_FreshDefaultHandlers ==
    /\ \A s1, s2 \in DefaultSubs : s1 # s2 => calls[s1].value # calls[s2].value
    /\ calls # <<>> =>
        LET c == Last
            m == Len(calls) - 1
        IN  /\ NoneNamed(Len(calls)) =>
                \A e \in Events :
                    LET ds == DefaultListeners(listeners[e])
                    IN  /\ Len(ds) = Cardinality(DefaultsOf(e, Len(calls)))
                        /\ Cardinality(Range(ds)) = Len(ds)
            /\ (c.kind = "deliver" /\ NoneNamed(m)) =>
                   Cardinality(Receives(c.trace, c.input.event.name)) =
                       Cardinality(DefaultsOf(c.input.event.name, m))
            /\ ( /\ IsProcess(c, SOCKET_ACTIONS.UNSUBSCRIBE)
                 /\ NoneNamed(m)
                 /\ \E s \in DefaultsOf(c.input.event.name, m) :
                        calls[s].value = c.input.handle ) =>
                   /\ c.post[c.input.event.name] =
                          Others(c.pre[c.input.event.name], c.input.handle)
                   /\ Len(DefaultListeners(c.post[c.input.event.name])) =
                          Cardinality(DefaultsOf(c.input.event.name, m)) - 1
                   /\ \A e \in Events :
                          e # c.input.event.name => c.post[e] = c.pre[e]

C16_Witness ==
    /\ Len(calls) = 3
    /\ DefaultsOf("e1", 3) = {1, 2}
    /\ Len(listeners["e1"]) = 2
    /\ listeners["e1"][1] # listeners["e1"][2]
    /\ Last.kind = "deliver"
    /\ Cardinality(Receives(Last.trace, "e1")) = 2

\* The types the switch of the middleware has a case for.
IntentTypes ==
    {SOCKET_ACTIONS.SUBSCRIBE, SOCKET_ACTIONS.UNSUBSCRIBE, SOCKET_ACTIONS.EMIT}

\* The types of the records the middleware dispatches for event name e.
ProvenanceTypes(e) ==
    {"EMIT: " \o e, "SUBSCRIBE: " \o e, "UNSUBSCRIBE " \o e, "RECEIVE: " \o e}

\* Event names chosen to come close to an intent type.
OddEventNames ==
    {"", "SOCKET_IO_EMIT", "SOCKET_IO_SUBSCRIBE", "SOCKET_IO_UNSUBSCRIBE",
     "IO_EMIT", "undefined"}

\* The most steps a call takes: three for each listener of a delivery (the
\* invocation, the dispatch, next), three for a call of the middleware (the
\* dispatch, next, the socket operation).
MaxSteps(c) ==
    IF c.kind = "deliver" THEN 3 * Len(c.pre[c.input.event.name]) ELSE 3

(* C17: dispatch leads back through the middleware, and every record the    *)
(* middleware dispatches (EMIT, SUBSCRIBE, UNSUBSCRIBE and RECEIVE records, *)
(* for every event name) has a type the switch has no case for: it is       *)
(* passed to next and causes no socket operation and no further dispatch;   *)
(* so every call, and every invocation of a default handler, ends after a   *)
(* bounded number of steps, one level of re-entry deep.                     *)
C17_NoRecursiveInterception ==
    /\ \A e \in OddEventNames \cup Events : ProvenanceTypes(e) \cap IntentTypes = {}
    /\ calls # <<>> =>
        LET c == Last
        IN  /\ Len(c.trace) <= MaxSteps(c)
            /\ \A i \in DOMAIN c.trace :
                   LET x == c.trace[i]
                   IN  /\ x.op = "dispatch" =>
                              /\ x.depth = 0
                              /\ x.arg.type \notin IntentTypes
                              /\ i + 1 \in DOMAIN c.trace
                              /\ c.trace[i + 1] = EffNext(1, x.arg)
                       /\ x.op \in ChannelOps => x.depth = 0
                       /\ x.op = "next" => x.depth <= 1

C17_Witness ==
    /\ Len(calls) = 3
    /\ 1 \in DefaultSubs
    /\ calls[1].trace[2] = EffNext(1, calls[1].trace[1].arg)
    /\ IsProcess(calls[2], SOCKET_ACTIONS.EMIT)
    /\ calls[2].trace[2] = EffNext(1, calls[2].trace[1].arg)
    /\ Last.kind = "deliver"
    /\ Len(Last.trace) = 3
    /\ Last.trace[2].arg.type = "RECEIVE: e1"
    /\ Last.trace[3] = EffNext(1, Last.trace[2].arg)

\* Call c is an UNSUBSCRIBE with a function that is no listener of the
\* event when the call begins.
UnsubscribesUnknown(c) ==
    /\ IsProcess(c, SOCKET_ACTIONS.UNSUBSCRIBE)
    /\ IsCallable(c.input.handle)
    /\ c.input.handle \notin Range(c.pre[c.input.event.name])

(* C18: an UNSUBSCRIBE with a function that was never registered for the    *)
(* event, or was removed from it already, is accepted: it dispatches the    *)
(* provenance record, calls removeListener(event, handle), throws nothing,  *)
(* returns undefined and leaves the listeners of every event as they were.  *)
C18_UnknownUnsubscribeAccepted ==
    calls # <<>> =>
        LET c == Last
        IN  UnsubscribesUnknown(c) =>
                /\ DispatchedTypes(c.trace) = <<"UNSUBSCRIBE " \o c.input.event.name>>
                /\ ChannelPart(c.trace) =
                       <<EffRemove(0, c.input.event, c.input.handle)>>
                /\ ~c.threw
                /\ c.value = Undefined
                /\ c.post = c.pre
                /\ listeners = c.pre

C18_Witness ==
    /\ Len(calls) = 3
    /\ UnsubscribesUnknown(calls[1])
    /\ calls[1].input.handle = UserFn("g")
    /\ SubscribedAt(2, "e1", UserFn("f"))
    /\ UnsubscribesUnknown(calls[3])
    /\ calls[3].input = unsubscribe(Str("e2"), UserFn("f"))
    /\ listeners["e1"] = <<UserFn("f")>>

====
